---------------------------- MODULE Spec2Model ----------------------------
(***************************************************************************)
(* The dual-endpoint (primary/fallback) HTTP client of the frontend,       *)
(* class Api of src/unnamed/part_007, as a state machine.                  *)
(*                                                                         *)
(* A call (get, post, getLongRunning, postLongRunning) issues a request on *)
(* the primary axios instance, awaits it, and on a thrown error issues the *)
(* same request on the fallback instance.  The backends are the            *)
(* environment: when an attempt settles, the backend's behaviour (status,  *)
(* body, delay) is drawn from Behaviours.  Times are in milliseconds.      *)
(***************************************************************************)
EXTENDS Integers, Sequences, FiniteSets, TLC

(***************************************************************************)
(* Bounds of the model.                                                    *)
(***************************************************************************)
NumCalls == 2

Calls == 1..NumCalls

(***************************************************************************)
(* Program constants.                                                      *)
(***************************************************************************)
TIMEOUT == 5000

LONG_TIMEOUT == 80000

Apis == {"primary", "fallback"}

BothFailedMessage == "Todas as tentativas de API falharam"

\* customTimeout?: number, when the caller passes none
Undefined == 0

(***************************************************************************)
(* Inputs of the calls.  An object is the sequence of its entries          *)
(* <<key, value>> in insertion order; the value "undefined" stands for     *)
(* the JavaScript undefined.                                               *)
(***************************************************************************)
Endpoints == {"/air-pollution/current"}

Objects == { << <<"lat", "10">>, <<"lon", "20">> >> }

\* The object { lat, lon } as a value of another object's key.
LatLon == "{lat,lon}"

\* The objects of the specification of the inputs (ParamsSpec): the plain
\* coordinates; a key with the value undefined; no key; only undefined
\* values; a key and a value that need escaping; and objects with a key
\* named params, whose value is an object, a string, or 0.
ParamObjects ==
    { << <<"lat", "10">>, <<"lon", "20">> >>,
      << <<"a", "1">>, <<"b", "undefined">>, <<"c", "x">> >>,
      << >>,
      << <<"b", "undefined">> >>,
      << <<"q", "a b">>, <<"a&b", "1">> >>,
      << <<"params", LatLon>> >>,
      << <<"params", "x">>, <<"lat", "10">> >>,
      << <<"params", "0">>, <<"lat", "10">> >> }

\* The argument `data` of tryRequest: the caller's object itself ("obj"), or
\* the literal { params } that getLongRunning builds around it ("wrap").
Obj(entries) == [tag |-> "obj", entries |-> entries]

Wrap(entries) == [tag |-> "wrap", entries |-> entries]

NoBody == [tag |-> "none", entries |-> <<>>]

(***************************************************************************)
(* What a backend may do with one request: answer with an HTTP status and  *)
(* a body that is JSON or not, after `delay` ms, or be unreachable         *)
(* (status 0): no answer within 90 s, which is past every timeout of the   *)
(* client.                                                                 *)
(***************************************************************************)
Behaviours ==
    { [status |-> 200, json |-> TRUE,  delay |-> 1000],
      [status |-> 200, json |-> TRUE,  delay |-> 10000],
      [status |-> 200, json |-> FALSE, delay |-> 1000],
      [status |-> 500, json |-> TRUE,  delay |-> 1000],
      [status |-> 0,   json |-> FALSE, delay |-> 90000] }

VARIABLES
    defaults,   \* api -> the axios instance's defaults (baseURL, timeout)
    pc,         \* call -> "idle", "primary", "fallback", "resolved", "rejected"
    call,       \* call -> the invocation: op, endpoint, data
    sent,       \* call -> the requests it has issued, in order
    inflight,   \* call -> the instances with a request of this call pending
    resp,       \* call -> what the backend did with each settled attempt
    result,     \* call -> what the promise settled with
    elapsed,    \* call -> ms from the invocation to the last settled attempt
    log,        \* call -> the console entries it has written, in order
    page,       \* the Index page: its React state and its pending fetches
    users,      \* the User collection: user -> the document
    notifications, \* the Notification collection
    runs,       \* cron tick -> the run of checkScheduledNotifications
    fetch,      \* one fetchAirQualityData of the scheduler, step by step
    whatsapp,   \* WhatsappService: isReady, messageQueue, isProcessing, loops
    services,   \* the initialization of the services and the cron jobs
    decision    \* the last evaluation of shouldSendNotification

vars == <<defaults, pc, call, sent, inflight, resp, result, elapsed, log,
          page, users, notifications, runs, fetch, whatsapp, services,
          decision>>

\* what the failover client never touches
nonApiVars ==
    <<page, users, notifications, runs, fetch, whatsapp, services, decision>>

NoCall == [op |-> "none", endpoint |-> "", data |-> <<>>]

Pending == [state |-> "pending", from |-> {}, part |-> "", parsed |-> FALSE,
            message |-> ""]

(***************************************************************************)
(* The Index page as mounted: every data state null, nothing loading.      *)
(* `pending` holds, per fetch handler, the api call it is awaiting;        *)
(* `toast` is the toast shown last; `ended` is not React state: it names   *)
(* the handler whose invocation ended in the step just taken, with the     *)
(* outcome of its api call.  With the data source tempo the page is as     *)
(* handleDataSourceChange("tempo") leaves it before a location is chosen.  *)
(* `location` is latitude and longitude; `effect` tells that a render with *)
(* a changed dataSource has its effect still to run.  Where invocations of *)
(* fetchAirPollutionData overlap, `requests` holds the api calls they      *)
(* await, each with the dataSource of the render that made it; `issued`    *)
(* counts them and `shown` names the request that airPollutionData is the  *)
(* result of (both are not React state).                                   *)
(***************************************************************************)
Handlers == {"fetchAirPollutionData", "fetchAirPollutionForecast",
             "fetchWeatherForecast", "fetchDaymetData"}

StateNames == {"airPollutionData", "forecastData", "weatherData", "daymetData"}

DataSources == {"openweather", "tempo"}

Date(y, m, d) == [y |-> y, m |-> m, d |-> d]

NoDate == Date(0, 0, 0)

NoClock == [date |-> NoDate, hour |-> 0, tz |-> 0]

NoRequest ==
    [op |-> "none", endpoint |-> "", lat |-> 0, lon |-> 0, wrapped |-> FALSE,
     start_date |-> NoDate, end_date |-> NoDate, years |-> 0, now |-> NoClock]

Toast(title, variant) == [title |-> title, variant |-> variant]

NoToast == Toast("", "")

NoEnd == [handler |-> "", outcome |-> ""]

\* latitude and longitude null; 0 is as falsy as null in `latitude && longitude`
NoLocation == [lat |-> 0, lon |-> 0]

\* the request whose result airPollutionData holds: none
NoOrigin == [dataSource |-> "", lat |-> 0, lon |-> 0]

MaxRequests == 3

MountedPage(source) ==
    [dataSource |-> source,
     data |-> [s \in StateNames |-> "null"],
     pending |-> [h \in Handlers |-> NoRequest],
     location |-> NoLocation,
     requests |-> {},
     issued |-> 0,
     shown |-> NoOrigin,
     effect |-> FALSE,
     showForecast |-> FALSE,
     showDaymetViz |-> FALSE,
     toast |-> IF source = "tempo" THEN Toast("Data Source Changed", "default")
               ELSE NoToast,
     ended |-> NoEnd]

(***************************************************************************)
(* The notification service at start: the users are registered and active *)
(* (createUser), no cron tick has come yet.                                *)
(***************************************************************************)
NumTicks == 2

Ticks == 1..NumTicks

Users == {"u1", "u2"}

\* A User document: `active`.  The other two are not fields of the document:
\* `subscribed` is what the user last asked for (createUser,
\* toggleUserActive), `generated` counts the notifications generated since
\* active was last set to true.
Registered == [active |-> TRUE, subscribed |-> TRUE, generated |-> 0]

\* A run of checkScheduledNotifications: `snapshot` is the result of
\* User.find, `idx` the position of the loop in it; `subscribed` is not
\* program state: the users who were subscribed when the tick came.
NotStarted == [pc |-> "idle", snapshot |-> <<>>, idx |-> 0, subscribed |-> {}]

NoFetch == [pc |-> "idle", location |-> "", attempts |-> <<>>]

(***************************************************************************)
(* WhatsappService as constructed.  `loops` holds the invocations of       *)
(* processQueue that are past its guard and have not returned.  Two fields *)
(* are not program state: `sends` is the history of the calls of           *)
(* client.sendMessage, `waited` tells whether the rateLimitDelay has       *)
(* elapsed since the last accepted send.                                   *)
(***************************************************************************)
WhatsappConstructed ==
    [isReady |-> FALSE, messageQueue |-> <<>>, isProcessing |-> FALSE,
     loops |-> <<>>, sends |-> <<>>, waited |-> TRUE]

\* the calls of NotificationService.initialize (n) and of
\* SchedulerService.initialize from elsewhere (s)
NotificationCalls == {"n1", "n2", "n3"}

SchedulerCalls == {"s1", "s2"}

InitCalls == NotificationCalls \cup SchedulerCalls

\* NotificationService.initialized, WhatsappService.client (null or not),
\* the tasks scheduled with node-cron, SchedulerService.activeJobs
ServicesConstructed ==
    [initialized |-> FALSE, client |-> FALSE, jobs |-> 0, activeJobs |-> {},
     calls |-> [c \in InitCalls |-> "idle"]]

\* as api.js leaves them: one NotificationService.initialize, completed
ServicesStarted ==
    [initialized |-> TRUE, client |-> TRUE, jobs |-> 1, activeJobs |-> {},
     calls |-> [c \in InitCalls |-> IF c = "n1" THEN "done" ELSE "idle"]]

Clock(day, hour, minute) == [day |-> day, hour |-> hour, minute |-> minute]

Preferences(frequency, timeOfDay, timezone) ==
    [frequency |-> frequency, timeOfDay |-> timeOfDay, timezone |-> timezone]

NoDecision ==
    [evaluated |-> FALSE, active |-> FALSE,
     notificationPreferences |-> Preferences("", "", ""),
     currentTime |-> Clock(0, 0, 0), send |-> FALSE]

(***************************************************************************)
(* constructor: two axios instances, each with the short timeout.          *)
(***************************************************************************)
ApiInit ==
    /\ defaults = [a \in Apis |-> [baseURL |-> a, timeout |-> TIMEOUT]]
    /\ pc = [c \in Calls |-> "idle"]
    /\ call = [c \in Calls |-> NoCall]
    /\ sent = [c \in Calls |-> <<>>]
    /\ inflight = [c \in Calls |-> {}]
    /\ resp = [c \in Calls |-> <<>>]
    /\ result = [c \in Calls |-> Pending]
    /\ elapsed = [c \in Calls |-> 0]
    /\ log = [c \in Calls |-> <<>>]

SchedulerInit ==
    /\ users = [u \in Users |-> Registered]
    /\ notifications = {}
    /\ runs = [r \in Ticks |-> NotStarted]
    /\ fetch = NoFetch
    /\ whatsapp = WhatsappConstructed
    /\ decision = NoDecision

Init ==
    /\ ApiInit
    /\ page = MountedPage("openweather")
    /\ SchedulerInit
    /\ services = ServicesConstructed

\* the notification service after its start
StartedInit ==
    /\ ApiInit
    /\ page = MountedPage("openweather")
    /\ SchedulerInit
    /\ services = ServicesStarted

(***************************************************************************)
(* buildQueryString                                                        *)
(***************************************************************************)
encodeURIComponent(s) ==
    CASE s = "a b" -> "a%20b"
      [] s = "a&b" -> "a%26b"
      [] s = LatLon -> "%5Bobject%20Object%5D"
      [] OTHER -> s

\* Mutant: no filter; every entry is emitted (the buildQueryString of the
\* older client, src/unnamed/part_008).
Defined_KeepsAll(entries) == entries

RECURSIVE Defined(_)
\* .filter(([_, value]) => value !== undefined)
Defined(entries) ==
    IF entries = <<>> THEN <<>>
    ELSE IF Head(entries)[2] = "undefined" THEN Defined(Tail(entries))
    ELSE <<Head(entries)>> \o Defined(Tail(entries))

RECURSIVE JoinPairs(_)
\* .map(([key, value]) => `${enc(key)}=${enc(value)}`).join('&')
JoinPairs(entries) ==
    IF entries = <<>> THEN <<>>
    ELSE << encodeURIComponent(Head(entries)[1]), "=",
            encodeURIComponent(Head(entries)[2]) >>
         \o (IF Tail(entries) = <<>> THEN <<>> ELSE <<"&">>)
         \o JoinPairs(Tail(entries))

\* The query string as the sequence of its pieces; '' is <<>>.
buildQueryString(entries) ==
    IF Len(entries) = 0 THEN <<>>
    ELSE <<"?">> \o JoinPairs(Defined(entries))


(***************************************************************************)
(* JavaScript values of the model: numerals are numbers, every other atom  *)
(* is a string.                                                            *)
(***************************************************************************)
IsNumber(v) == v \in {"0", "1", "10", "20"}

\* what `v ? ... : ...` takes as false
Falsy(v) == v \in {"undefined", "", "0"}

Chars(v) ==
    CASE v = "x" -> <<"x">>
      [] v = "a b" -> <<"a", " ", "b">>
      [] v = "a&b" -> <<"a", "&", "b">>
      [] OTHER -> <<>>

IndexKey(i) == CASE i = 1 -> "0" [] i = 2 -> "1" [] OTHER -> "2"

\* Object.entries(v): the entries of an object; of a primitive, a string's
\* characters by index, nothing for a number.
EntriesOfValue(v) ==
    IF IsNumber(v) THEN <<>>
    ELSE IF v = LatLon THEN << <<"lat", "10">>, <<"lon", "20">> >>
    ELSE [i \in 1..Len(Chars(v)) |-> <<IndexKey(i), Chars(v)[i]>>]

\* data.params of an object given by its entries (the last entry of a key wins)
RECURSIVE Lookup(_, _)
Lookup(entries, key) ==
    IF entries = <<>> THEN "undefined"
    ELSE IF entries[Len(entries)][1] = key THEN entries[Len(entries)][2]
    ELSE Lookup(SubSeq(entries, 1, Len(entries) - 1), key)

\* data?.params ? buildQueryString(data.params) : buildQueryString(data)
QueryOf(data) ==
    IF data.tag = "wrap" THEN buildQueryString(data.entries)
    ELSE IF ~Falsy(Lookup(data.entries, "params"))
         THEN buildQueryString(EntriesOfValue(Lookup(data.entries, "params")))
         ELSE buildQueryString(data.entries)

(***************************************************************************)
(* tryRequest, up to its await: the request it hands to the axios instance.*)
(* The per-request config { timeout: customTimeout } overrides the         *)
(* instance default; {} leaves it.                                         *)
(***************************************************************************)
\* Mutant: only the per-request timeout counts; without one the request has
\* no timeout (0), as with an instance created without `timeout`.
RequestTimeout_CustomOnly(api, customTimeout) == customTimeout

RequestTimeout(api, customTimeout) ==
    IF customTimeout # Undefined THEN customTimeout ELSE defaults[api].timeout

\* Mutant: the query string is built for GET and POST alike and a POST is
\* sent with the body {} (the tryRequest of the older client,
\* src/unnamed/part_008).
tryRequest_QueryForPost(api, method, endpoint, data, customTimeout, now) ==
    [api |-> api, method |-> method,
     url |-> [endpoint |-> endpoint, query |-> QueryOf(data)],
     body |-> IF method = "get" THEN NoBody ELSE Obj(<<>>),
     timeout |-> RequestTimeout(api, customTimeout), at |-> now]

tryRequest(api, method, endpoint, data, customTimeout, now) ==
    IF method = "get"
    THEN [api |-> api, method |-> "get",
          url |-> [endpoint |-> endpoint, query |-> QueryOf(data)],
          body |-> NoBody,
          timeout |-> RequestTimeout(api, customTimeout), at |-> now]
    ELSE [api |-> api, method |-> "post",
          url |-> [endpoint |-> endpoint, query |-> <<>>],
          body |-> data,
          timeout |-> RequestTimeout(api, customTimeout), at |-> now]

\* Mutant: the custom timeout is set on the shared instance
\* (api.defaults.timeout = customTimeout) instead of on the request.
DefaultsAfterRequest_Stored(api, customTimeout) ==
    IF customTimeout # Undefined
    THEN [defaults EXCEPT ![api].timeout = customTimeout]
    ELSE defaults

\* Mutant: sticky failover; once a fallback attempt is made, the primary
\* instance is pointed at the fallback's base URL for the calls to come.
DefaultsAfterRequest_Promoted(api, customTimeout) ==
    IF api = "fallback"
    THEN [defaults EXCEPT !["primary"].baseURL = defaults["fallback"].baseURL]
    ELSE defaults

\* tryRequest neither reads nor writes the instance defaults beyond the merge
\* axios does per request: they are what the constructor set.
DefaultsAfterRequest(api, customTimeout) == defaults

(***************************************************************************)
(* The arguments each operation passes to tryRequest for its primary and   *)
(* for its fallback attempt.                                               *)
(***************************************************************************)
PrimaryAttempt(cl) ==
    CASE cl.op = "get" ->
           [method |-> "get", data |-> Obj(cl.data), customTimeout |-> Undefined]
      [] cl.op = "post" ->
           [method |-> "post", data |-> Obj(cl.data), customTimeout |-> Undefined]
      [] cl.op = "postLongRunning" ->
           [method |-> "post", data |-> Obj(cl.data), customTimeout |-> LONG_TIMEOUT]
      [] cl.op = "getLongRunning" ->
           [method |-> "get", data |-> Wrap(cl.data), customTimeout |-> LONG_TIMEOUT]

\* Mutant: the fallback attempt is made without the caller's data.
FallbackAttempt_DropsData(cl) ==
    [PrimaryAttempt(cl) EXCEPT !.data = Obj(<<>>)]

\* Mutant: the fallback attempt of the long-running variants is made without
\* LONG_TIMEOUT.
FallbackAttempt_ShortTimeout(cl) ==
    [PrimaryAttempt(cl) EXCEPT !.customTimeout = Undefined]

FallbackAttempt(cl) ==
    CASE cl.op = "get" ->
           [method |-> "get", data |-> Obj(cl.data), customTimeout |-> Undefined]
      [] cl.op = "post" ->
           [method |-> "post", data |-> Obj(cl.data), customTimeout |-> Undefined]
      [] cl.op = "postLongRunning" ->
           [method |-> "post", data |-> Obj(cl.data), customTimeout |-> LONG_TIMEOUT]
      [] cl.op = "getLongRunning" ->
           [method |-> "get", data |-> Wrap(cl.data), customTimeout |-> LONG_TIMEOUT]

(***************************************************************************)
(* axios, as the awaited api.get / api.post settles.  The request rejects  *)
(* when its timeout (0: none) elapses before the response, when there is   *)
(* no response (status 0), and on a status that validateStatus refuses;    *)
(* otherwise it fulfils with the response, whose data is the body run      *)
(* through the default transformResponse: JSON.parse, and the text as it   *)
(* came when that throws.                                                  *)
(***************************************************************************)
validateStatus(status) == status >= 200 /\ status < 300

TimedOut(beh, timeout) == timeout > 0 /\ beh.delay >= timeout

Fulfils(beh, timeout) ==
    /\ ~TimedOut(beh, timeout)
    /\ validateStatus(beh.status)

\* ms the attempt took
Latency(beh, timeout) == IF TimedOut(beh, timeout) THEN timeout ELSE beh.delay

\* error.code of the rejection
ErrorOf(beh, timeout) ==
    IF TimedOut(beh, timeout) THEN "ECONNABORTED"
    ELSE IF beh.status = 0 THEN "ERR_NETWORK"
    ELSE "ERR_BAD_RESPONSE"

(***************************************************************************)
(* The body of a POST on the wire and back.  The instances are created     *)
(* with Content-Type application/json: axios sends JSON.stringify(data),   *)
(* which leaves out the keys whose value is undefined, and hands back      *)
(* JSON.parse of the response text.  A JSON text is the sequence of its    *)
(* members, each with its name, the kind of its value, and the value's     *)
(* text (number, string) or members (object).                              *)
(***************************************************************************)
RECURSIVE JSONstringify(_)
JSONstringify(entries) ==
    IF entries = <<>> THEN <<>>
    ELSE LET k == Head(entries)[1]
             v == Head(entries)[2]
             rest == JSONstringify(Tail(entries))
         IN IF v = "undefined" THEN rest
            ELSE IF IsNumber(v)
            THEN <<[name |-> k, kind |-> "number", text |-> v,
                    members |-> <<>>]>> \o rest
            ELSE IF v = LatLon
            THEN <<[name |-> k, kind |-> "object", text |-> "",
                    members |-> JSONstringify(EntriesOfValue(v))]>> \o rest
            ELSE <<[name |-> k, kind |-> "string", text |-> v,
                    members |-> <<>>]>> \o rest

\* the value whose entries are these
ObjectOf(entries) == CHOOSE v \in {LatLon} : EntriesOfValue(v) = entries

RECURSIVE JSONparse(_)
JSONparse(text) ==
    IF text = <<>> THEN <<>>
    ELSE LET m == Head(text)
         IN << <<m.name, IF m.kind = "object"
                         THEN ObjectOf(JSONparse(m.members))
                         ELSE m.text>> >> \o JSONparse(Tail(text))

\* the request body as sent
RequestBodyText(req) == JSONstringify(req.body.entries)

\* response.data: the whole body of the backend that answered
ResponseData(api, beh) ==
    [state |-> "ok", from |-> {api}, part |-> "body", parsed |-> beh.json,
     message |-> ""]

\* Mutant: return response.data.data, the payload field of the body only.
ReturnValue_Unwrapped(api, beh) ==
    [ResponseData(api, beh) EXCEPT !.part = "data"]

\* return response.data
ReturnValue(api, beh) == ResponseData(api, beh)

\* Mutant: the inner catch block is missing; the fallback's error propagates.
BothFailedError_Rethrows(primaryError, fallbackError) ==
    [state |-> "error", from |-> {}, part |-> "", parsed |-> FALSE,
     message |-> fallbackError]

\* throw new Error('Todas as tentativas de API falharam')
BothFailedError(primaryError, fallbackError) ==
    [state |-> "error", from |-> {}, part |-> "", parsed |-> FALSE,
     message |-> BothFailedMessage]


(***************************************************************************)
(* The console entries.  Every entry has a level and a text; the entries   *)
(* of tryRequest name the instance's base URL and the endpoint, and the    *)
(* entry of a fulfilled attempt carries the duration (<<ms>>; <<>> when    *)
(* the entry has none).                                                    *)
(***************************************************************************)
Entry(level, text, baseURL, endpoint, duration) ==
    [level |-> level, text |-> text, baseURL |-> baseURL,
     endpoint |-> endpoint, duration |-> duration]

\* console.log('Starting GET request:', {...}) and its three siblings
StartingLog(endpoint) == Entry("log", "Starting request", "", endpoint, <<>>)

\* console.log(`Request to ${baseURL}${endpoint} succeeded in ${duration}ms`)
SucceededLog(api, endpoint, duration) ==
    Entry("log", "succeeded", defaults[api].baseURL, endpoint, <<duration>>)

\* console.error(`Request failed for ${baseURL}${endpoint}:`, {status, ...})
FailedLog(api, endpoint) ==
    Entry("error", "failed", defaults[api].baseURL, endpoint, <<>>)

\* console.warn('Primary API failed, trying fallback...')
PrimaryFailedLog == Entry("warn", "Primary API failed, trying fallback", "", "", <<>>)

\* console.error('Both APIs failed')
BothFailedLog == Entry("error", "Both APIs failed", "", "", <<>>)

(***************************************************************************)
(* The request of call c pending on instance api.                          *)
(***************************************************************************)
RequestOn(c, api) ==
    CHOOSE r \in {sent[c][i] : i \in 1..Len(sent[c])} : r.api = api

\* Mutant: both attempts are issued at once and raced.
Invoke_Hedged(c, op, endpoint, data) ==
    /\ pc[c] = "idle"
    /\ LET cl == [op |-> op, endpoint |-> endpoint, data |-> data]
           a == PrimaryAttempt(cl)
       IN /\ call' = [call EXCEPT ![c] = cl]
          /\ sent' = [sent EXCEPT ![c] =
                 <<tryRequest("primary", a.method, endpoint, a.data,
                              a.customTimeout, 0),
                   tryRequest("fallback", a.method, endpoint, a.data,
                              a.customTimeout, 0)>>]
    /\ inflight' = [inflight EXCEPT ![c] = {"primary", "fallback"}]
    /\ pc' = [pc EXCEPT ![c] = "fallback"]
    /\ log' = [log EXCEPT ![c] = <<StartingLog(endpoint)>>]
    /\ UNCHANGED <<defaults, resp, result, elapsed>>
    /\ UNCHANGED nonApiVars

(***************************************************************************)
(* get / post / postLongRunning / getLongRunning, up to the first await:   *)
(* the primary attempt is issued.                                          *)
(***************************************************************************)
Invoke(c, op, endpoint, data) ==
    /\ pc[c] = "idle"
    /\ LET cl == [op |-> op, endpoint |-> endpoint, data |-> data]
           a == PrimaryAttempt(cl)
       IN /\ call' = [call EXCEPT ![c] = cl]
          /\ sent' = [sent EXCEPT ![c] =
                 <<tryRequest("primary", a.method, endpoint, a.data,
                              a.customTimeout, 0)>>]
          /\ defaults' = DefaultsAfterRequest("primary", a.customTimeout)
    /\ inflight' = [inflight EXCEPT ![c] = {"primary"}]
    /\ pc' = [pc EXCEPT ![c] = "primary"]
    /\ log' = [log EXCEPT ![c] = <<StartingLog(endpoint)>>]
    /\ UNCHANGED <<resp, result, elapsed>>
    /\ UNCHANGED nonApiVars

get(c, endpoint, params) == Invoke(c, "get", endpoint, params)

post(c, endpoint, data) == Invoke(c, "post", endpoint, data)

postLongRunning(c, endpoint, data) == Invoke(c, "postLongRunning", endpoint, data)

getLongRunning(c, endpoint, params) == Invoke(c, "getLongRunning", endpoint, params)

\* Mutant: the result of the primary attempt is not returned; the operation
\* goes on to the fallback attempt.
PrimarySucceeds_FallsThrough(c) ==
    /\ pc[c] = "primary"
    /\ \E beh \in Behaviours :
          LET t == RequestOn(c, "primary").timeout
              a == PrimaryAttempt(call[c])
              now == elapsed[c] + Latency(beh, t)
          IN /\ Fulfils(beh, t)
             /\ resp' = [resp EXCEPT ![c] = Append(@, beh)]
             /\ elapsed' = [elapsed EXCEPT ![c] = now]
             /\ sent' = [sent EXCEPT ![c] =
                    Append(@, tryRequest("fallback", a.method, call[c].endpoint,
                                         a.data, a.customTimeout, now))]
             /\ log' = [log EXCEPT ![c] =
                    Append(@, SucceededLog("primary", call[c].endpoint,
                                           Latency(beh, t)))]
    /\ inflight' = [inflight EXCEPT ![c] = (@ \ {"primary"}) \cup {"fallback"}]
    /\ pc' = [pc EXCEPT ![c] = "fallback"]
    /\ UNCHANGED <<defaults, call, result>>
    /\ UNCHANGED nonApiVars

(***************************************************************************)
(* The primary attempt fulfils: tryRequest returns response.data and the   *)
(* operation returns it.                                                   *)
(***************************************************************************)
PrimarySucceeds(c) ==
    /\ pc[c] = "primary"
    /\ \E beh \in Behaviours :
          LET t == RequestOn(c, "primary").timeout
          IN /\ Fulfils(beh, t)
             /\ resp' = [resp EXCEPT ![c] = Append(@, beh)]
             /\ elapsed' = [elapsed EXCEPT ![c] = @ + Latency(beh, t)]
             /\ result' = [result EXCEPT ![c] = ReturnValue("primary", beh)]
             /\ log' = [log EXCEPT ![c] =
                    Append(@, SucceededLog("primary", call[c].endpoint,
                                           Latency(beh, t)))]
    /\ inflight' = [inflight EXCEPT ![c] = @ \ {"primary"}]
    /\ pc' = [pc EXCEPT ![c] = "resolved"]
    /\ UNCHANGED <<defaults, call, sent>>
    /\ UNCHANGED nonApiVars

(***************************************************************************)
(* The primary attempt rejects: tryRequest logs and rethrows, the catch    *)
(* block of the operation issues the fallback attempt.                     *)
(***************************************************************************)
PrimaryFails(c) ==
    /\ pc[c] = "primary"
    /\ \E beh \in Behaviours :
          LET t == RequestOn(c, "primary").timeout
              a == FallbackAttempt(call[c])
              now == elapsed[c] + Latency(beh, t)
          IN /\ ~Fulfils(beh, t)
             /\ resp' = [resp EXCEPT ![c] = Append(@, beh)]
             /\ elapsed' = [elapsed EXCEPT ![c] = now]
             /\ sent' = [sent EXCEPT ![c] =
                    Append(@, tryRequest("fallback", a.method, call[c].endpoint,
                                         a.data, a.customTimeout, now))]
             /\ defaults' = DefaultsAfterRequest("fallback", a.customTimeout)
             /\ log' = [log EXCEPT ![c] =
                    @ \o <<FailedLog("primary", call[c].endpoint),
                           PrimaryFailedLog>>]
    /\ inflight' = [inflight EXCEPT ![c] = (@ \ {"primary"}) \cup {"fallback"}]
    /\ pc' = [pc EXCEPT ![c] = "fallback"]
    /\ UNCHANGED <<call, result>>
    /\ UNCHANGED nonApiVars

(***************************************************************************)
(* The fallback attempt fulfils: its response.data is returned.            *)
(***************************************************************************)
FallbackSucceeds(c) ==
    /\ pc[c] = "fallback"
    /\ \E beh \in Behaviours :
          LET t == RequestOn(c, "fallback").timeout
          IN /\ Fulfils(beh, t)
             /\ resp' = [resp EXCEPT ![c] = Append(@, beh)]
             /\ elapsed' = [elapsed EXCEPT ![c] = @ + Latency(beh, t)]
             /\ result' = [result EXCEPT ![c] = ReturnValue("fallback", beh)]
             /\ log' = [log EXCEPT ![c] =
                    Append(@, SucceededLog("fallback", call[c].endpoint,
                                           Latency(beh, t)))]
    /\ inflight' = [inflight EXCEPT ![c] = @ \ {"fallback"}]
    /\ pc' = [pc EXCEPT ![c] = "resolved"]
    /\ UNCHANGED <<defaults, call, sent>>
    /\ UNCHANGED nonApiVars

\* Mutant: after a failed fallback attempt the primary is tried again.
FallbackFails_Retries(c) ==
    /\ pc[c] = "fallback"
    /\ \E beh \in Behaviours :
          LET t == RequestOn(c, "fallback").timeout
              a == PrimaryAttempt(call[c])
              now == elapsed[c] + Latency(beh, t)
          IN /\ ~Fulfils(beh, t)
             /\ Len(resp[c]) < 4
             /\ resp' = [resp EXCEPT ![c] = Append(@, beh)]
             /\ elapsed' = [elapsed EXCEPT ![c] = now]
             /\ sent' = [sent EXCEPT ![c] =
                    Append(@, tryRequest("primary", a.method, call[c].endpoint,
                                         a.data, a.customTimeout, now))]
    /\ inflight' = [inflight EXCEPT ![c] = (@ \ {"fallback"}) \cup {"primary"}]
    /\ pc' = [pc EXCEPT ![c] = "primary"]
    /\ log' = [log EXCEPT ![c] =
           Append(@, FailedLog("fallback", call[c].endpoint))]
    /\ UNCHANGED <<defaults, call, result>>
    /\ UNCHANGED nonApiVars

(***************************************************************************)
(* The fallback attempt rejects too: the inner catch block throws the one  *)
(* Error of the operation.                                                 *)
(***************************************************************************)
FallbackFails(c) ==
    /\ pc[c] = "fallback"
    /\ \E beh \in Behaviours :
          LET t == RequestOn(c, "fallback").timeout
              tp == RequestOn(c, "primary").timeout
          IN /\ ~Fulfils(beh, t)
             /\ resp' = [resp EXCEPT ![c] = Append(@, beh)]
             /\ elapsed' = [elapsed EXCEPT ![c] = @ + Latency(beh, t)]
             /\ result' = [result EXCEPT ![c] =
                    BothFailedError(ErrorOf(resp[c][1], tp), ErrorOf(beh, t))]
    /\ inflight' = [inflight EXCEPT ![c] = @ \ {"fallback"}]
    /\ pc' = [pc EXCEPT ![c] = "rejected"]
    /\ log' = [log EXCEPT ![c] =
           @ \o <<FailedLog("fallback", call[c].endpoint), BothFailedLog>>]
    /\ UNCHANGED <<defaults, call, sent>>
    /\ UNCHANGED nonApiVars

Next ==
    \E c \in Calls :
       \/ \E e \in Endpoints, o \in Objects :
             \/ get(c, e, o)
             \/ post(c, e, o)
             \/ postLongRunning(c, e, o)
             \/ getLongRunning(c, e, o)
       \/ PrimarySucceeds(c)
       \/ PrimaryFails(c)
       \/ FallbackSucceeds(c)
       \/ FallbackFails(c)

Spec == Init /\ [][Next]_vars

(***************************************************************************)
(* The specification of the inputs: one call, its params or body drawn     *)
(* from ParamObjects.                                                      *)
(***************************************************************************)
ParamsNext ==
    \/ \E e \in Endpoints, o \in ParamObjects :
          \/ get(1, e, o)
          \/ post(1, e, o)
          \/ postLongRunning(1, e, o)
          \/ getLongRunning(1, e, o)
    \/ PrimarySucceeds(1)
    \/ PrimaryFails(1)
    \/ FallbackSucceeds(1)
    \/ FallbackFails(1)

ParamsSpec == Init /\ [][ParamsNext]_vars

(***************************************************************************)
(* JavaScript Dates of the Index page.  A Date is held as the local date   *)
(* and hour of the browser; tz is the offset of local time from UTC in     *)
(* hours (constant over the days concerned).                               *)
(***************************************************************************)
DaysIn(y, m) ==
    CASE m \in {4, 6, 9, 11} -> 30
      [] m = 2 -> (IF y % 4 = 0 THEN 29 ELSE 28)
      [] OTHER -> 31

PrevDay(dt) ==
    IF dt.d > 1 THEN Date(dt.y, dt.m, dt.d - 1)
    ELSE IF dt.m > 1 THEN Date(dt.y, dt.m - 1, DaysIn(dt.y, dt.m - 1))
    ELSE Date(dt.y - 1, 12, 31)

NextDay(dt) ==
    IF dt.d < DaysIn(dt.y, dt.m) THEN Date(dt.y, dt.m, dt.d + 1)
    ELSE IF dt.m < 12 THEN Date(dt.y, dt.m + 1, 1)
    ELSE Date(dt.y + 1, 1, 1)

\* date.setDate(date.getDate() - n)
RECURSIVE MinusDays(_, _)
MinusDays(dt, n) == IF n = 0 THEN dt ELSE MinusDays(PrevDay(dt), n - 1)

\* new Date(year, monthIndex, day): local midnight
NewDate(year, monthIndex, day) ==
    [date |-> Date(year, monthIndex + 1, day), hour |-> 0]

\* date.toISOString().split('T')[0]: the date in UTC
ISODate(when, tz) ==
    IF when.hour - tz < 0 THEN PrevDay(when.date)
    ELSE IF when.hour - tz >= 24 THEN NextDay(when.date)
    ELSE when.date

\* the date range of the TEMPO request, for the clock read by new Date()
TempoDateRange(clock) ==
    LET today == [date |-> clock.date, hour |-> clock.hour]
        getFullYear == today.date.y
        getMonth == today.date.m - 1
        endDate == IF getFullYear = 2025 /\ getMonth >= 9
                   THEN NewDate(2025, 8, 20)
                   ELSE IF getFullYear > 2025
                   THEN NewDate(2025, 8, 20)
                   ELSE today
        startDate == [date |-> MinusDays(endDate.date, 30),
                      hour |-> endDate.hour]
    IN [start_date |-> ISODate(startDate, clock.tz),
        end_date |-> ISODate(endDate, clock.tz)]

(***************************************************************************)
(* The inputs of the page: where the handlers are asked to fetch for (New  *)
(* York; Recife, outside the Daymet coverage), what the browser's clock    *)
(* reads when a handler calls new Date(), and how the awaited api call     *)
(* ends: with the parsed body, with the unparsed text of a 2xx answer, or  *)
(* rejected.                                                               *)
(***************************************************************************)
Here == [lat |-> 40, lon |-> -74]

Locations == {Here, [lat |-> -8, lon |-> -35]}

Clocks ==
    { [date |-> Date(2025, 10, 6),  hour |-> 12, tz |-> -3],
      [date |-> Date(2025, 10, 6),  hour |-> 12, tz |-> 2],
      [date |-> Date(2025, 9, 15),  hour |-> 12, tz |-> -3],
      [date |-> Date(2025, 9, 15),  hour |-> 22, tz |-> -3],
      [date |-> Date(2025, 9, 15),  hour |-> 1,  tz |-> 2],
      [date |-> Date(2025, 10, 1),  hour |-> 0,  tz |-> 0],
      [date |-> Date(2025, 12, 31), hour |-> 23, tz |-> -5],
      [date |-> Date(2026, 1, 5),   hour |-> 12, tz |-> 0] }

OutcomeOf(res) ==
    IF res.state = "error" THEN "rejected"
    ELSE IF res.parsed THEN "json" ELSE "text"

ApiOutcomes ==
    {OutcomeOf(ReturnValue(a, b)) :
        a \in Apis, b \in {x \in Behaviours : validateStatus(x.status)}}
    \cup {OutcomeOf(BothFailedError("", ""))}

StateOf(h) ==
    CASE h = "fetchAirPollutionData" -> "airPollutionData"
      [] h = "fetchAirPollutionForecast" -> "forecastData"
      [] h = "fetchWeatherForecast" -> "weatherData"
      [] h = "fetchDaymetData" -> "daymetData"

Awaiting(h) == page.pending[h].op # "none"

Request(op, endpoint, loc) ==
    [NoRequest EXCEPT !.op = op, !.endpoint = endpoint,
                      !.lat = loc.lat, !.lon = loc.lon]

(***************************************************************************)
(* fetchAirPollutionData(lat, lon), up to its await: api.get for           *)
(* OpenWeather; for TEMPO the toast, the date range and api.getLongRunning. *)
(***************************************************************************)
fetchAirPollutionData(lat, lon) ==
    /\ ~Awaiting("fetchAirPollutionData")
    /\ \/ /\ page.dataSource = "openweather"
          /\ page' = [page EXCEPT
                 !.pending["fetchAirPollutionData"] =
                     Request("get", "/air-pollution/current",
                             [lat |-> lat, lon |-> lon]),
                 !.ended = NoEnd]
       \/ /\ page.dataSource # "openweather"
          /\ \E clock \in Clocks :
                page' = [page EXCEPT
                   !.toast = Toast("Searching TEMPO Data", "default"),
                   !.pending["fetchAirPollutionData"] =
                       [Request("getLongRunning", "/air-pollution/tempo-current",
                                [lat |-> lat, lon |-> lon])
                          EXCEPT !.start_date = TempoDateRange(clock).start_date,
                                 !.end_date = TempoDateRange(clock).end_date,
                                 !.now = clock],
                   !.ended = NoEnd]
    /\ UNCHANGED <<defaults, pc, call, sent, inflight, resp, result, elapsed,
                   log, users, notifications, runs, fetch,
                   whatsapp, services, decision>>

\* the toasts of the TEMPO branch after the await: none when the data names
\* no data_date, else one of two
TempoToasts(outcome) ==
    IF outcome = "json"
    THEN {page.toast, Toast("Historical Data Loaded", "default"),
          Toast("Data Loaded", "default")}
    ELSE {page.toast}

\* catch: setAirPollutionData(null)
AirPollutionDataOnError == "null"

(***************************************************************************)
(* fetchAirPollutionData from its await on.                                *)
(***************************************************************************)
AirPollutionDataSettles(outcome) ==
    /\ Awaiting("fetchAirPollutionData")
    /\ LET rq == page.pending["fetchAirPollutionData"]
           tempo == rq.op = "getLongRunning"
       IN IF outcome # "rejected"
          THEN \E t \in (IF tempo THEN TempoToasts(outcome) ELSE {page.toast}) :
                  page' = [page EXCEPT
                     !.data["airPollutionData"] = outcome,
                     !.toast = t,
                     !.pending["fetchAirPollutionData"] = NoRequest,
                     !.ended = [handler |-> "fetchAirPollutionData",
                                outcome |-> outcome]]
          ELSE page' = [page EXCEPT
                  !.toast = Toast("Air Quality Error", "destructive"),
                  !.data["airPollutionData"] = AirPollutionDataOnError,
                  !.pending["fetchAirPollutionData"] = NoRequest,
                  !.ended = [handler |-> "fetchAirPollutionData",
                             outcome |-> outcome]]
    /\ UNCHANGED <<defaults, pc, call, sent, inflight, resp, result, elapsed,
                   log, users, notifications, runs, fetch,
                   whatsapp, services, decision>>

(***************************************************************************)
(* fetchAirPollutionForecast(lat, lon): up to its await, and from it on.   *)
(* Its catch block shows the toast and sets no state.                      *)
(***************************************************************************)
fetchAirPollutionForecast(lat, lon) ==
    /\ ~Awaiting("fetchAirPollutionForecast")
    /\ page' = [page EXCEPT
           !.pending["fetchAirPollutionForecast"] =
               Request("get", "/air-pollution/forecast-daily",
                       [lat |-> lat, lon |-> lon]),
           !.ended = NoEnd]
    /\ UNCHANGED <<defaults, pc, call, sent, inflight, resp, result, elapsed,
                   log, users, notifications, runs, fetch,
                   whatsapp, services, decision>>

AirPollutionForecastSettles(outcome) ==
    /\ Awaiting("fetchAirPollutionForecast")
    /\ IF outcome # "rejected"
       THEN page' = [page EXCEPT
               !.data["forecastData"] = outcome,
               !.showForecast = TRUE,
               !.toast = Toast("Daily Forecast Loaded!", "default"),
               !.pending["fetchAirPollutionForecast"] = NoRequest,
               !.ended = [handler |-> "fetchAirPollutionForecast",
                          outcome |-> outcome]]
       ELSE page' = [page EXCEPT
               !.toast = Toast("Forecast Error", "destructive"),
               !.pending["fetchAirPollutionForecast"] = NoRequest,
               !.ended = [handler |-> "fetchAirPollutionForecast",
                          outcome |-> outcome]]
    /\ UNCHANGED <<defaults, pc, call, sent, inflight, resp, result, elapsed,
                   log, users, notifications, runs, fetch,
                   whatsapp, services, decision>>

(***************************************************************************)
(* fetchWeatherForecast(lat, lon): api.get with { params: { lat, lon } };  *)
(* a resolved value that is no object is thrown into the catch block.      *)
(***************************************************************************)
fetchWeatherForecast(lat, lon) ==
    /\ ~Awaiting("fetchWeatherForecast")
    /\ page' = [page EXCEPT
           !.pending["fetchWeatherForecast"] =
               [Request("get", "/weather/forecast", [lat |-> lat, lon |-> lon])
                  EXCEPT !.wrapped = TRUE],
           !.ended = NoEnd]
    /\ UNCHANGED <<defaults, pc, call, sent, inflight, resp, result, elapsed,
                   log, users, notifications, runs, fetch,
                   whatsapp, services, decision>>

WeatherForecastSettles(outcome) ==
    /\ Awaiting("fetchWeatherForecast")
    /\ IF outcome = "json"
       THEN page' = [page EXCEPT
               !.data["weatherData"] = outcome,
               !.toast = Toast("Weather forecast loaded!", "default"),
               !.pending["fetchWeatherForecast"] = NoRequest,
               !.ended = [handler |-> "fetchWeatherForecast",
                          outcome |-> outcome]]
       ELSE page' = [page EXCEPT
               !.data["weatherData"] = "null",
               !.toast = Toast("Error loading weather forecast", "destructive"),
               !.pending["fetchWeatherForecast"] = NoRequest,
               !.ended = [handler |-> "fetchWeatherForecast",
                          outcome |-> outcome]]
    /\ UNCHANGED <<defaults, pc, call, sent, inflight, resp, result, elapsed,
                   log, users, notifications, runs, fetch,
                   whatsapp, services, decision>>

(***************************************************************************)
(* fetchDaymetData(lat, lon): outside North America a toast and nothing    *)
(* else; inside, api.getLongRunning for last year's data.                  *)
(***************************************************************************)
OutsideDaymet(lat, lon) ==
    10 * lat < 145 \/ 10 * lat > 520 \/ lon < -131 \/ lon > -53

fetchDaymetData(lat, lon) ==
    /\ ~Awaiting("fetchDaymetData")
    /\ IF OutsideDaymet(lat, lon)
       THEN page' = [page EXCEPT
               !.toast = Toast("Location outside coverage", "destructive"),
               !.ended = NoEnd]
       ELSE \E clock \in Clocks :
               page' = [page EXCEPT
                  !.showDaymetViz = TRUE,
                  !.pending["fetchDaymetData"] =
                      [Request("getLongRunning", "/weather/daymet",
                               [lat |-> lat, lon |-> lon])
                         EXCEPT !.years = clock.date.y - 1],
                  !.ended = NoEnd]
    /\ UNCHANGED <<defaults, pc, call, sent, inflight, resp, result, elapsed,
                   log, users, notifications, runs, fetch,
                   whatsapp, services, decision>>

DaymetDataSettles(outcome) ==
    /\ Awaiting("fetchDaymetData")
    /\ IF outcome # "rejected"
       THEN page' = [page EXCEPT
               !.data["daymetData"] = outcome,
               !.toast = Toast("Climate data loaded!", "default"),
               !.pending["fetchDaymetData"] = NoRequest,
               !.ended = [handler |-> "fetchDaymetData", outcome |-> outcome]]
       ELSE page' = [page EXCEPT
               !.data["daymetData"] = "null",
               !.showDaymetViz = FALSE,
               !.toast = Toast("Error loading climate data", "destructive"),
               !.pending["fetchDaymetData"] = NoRequest,
               !.ended = [handler |-> "fetchDaymetData", outcome |-> outcome]]
    /\ UNCHANGED <<defaults, pc, call, sent, inflight, resp, result, elapsed,
                   log, users, notifications, runs, fetch,
                   whatsapp, services, decision>>

(***************************************************************************)
(* The specification of the Index page: the four fetch handlers, invoked   *)
(* for the location Here (fetchDaymetData for either location) while not   *)
(* already loading, each api call ending in any way the client can end.    *)
(***************************************************************************)
PageInit ==
    /\ ApiInit
    /\ \E source \in DataSources : page = MountedPage(source)
    /\ SchedulerInit
    /\ services = ServicesConstructed

PageNext ==
    \/ fetchAirPollutionData(Here.lat, Here.lon)
    \/ fetchAirPollutionForecast(Here.lat, Here.lon)
    \/ fetchWeatherForecast(Here.lat, Here.lon)
    \/ \E loc \in Locations : fetchDaymetData(loc.lat, loc.lon)
    \/ \E outcome \in ApiOutcomes :
          \/ AirPollutionDataSettles(outcome)
          \/ AirPollutionForecastSettles(outcome)
          \/ WeatherForecastSettles(outcome)
          \/ DaymetDataSettles(outcome)

PageSpec == PageInit /\ [][PageNext]_vars

(***************************************************************************)
(* The callers of fetchAirPollutionData, with overlapping invocations.     *)
(* fetchAirPollutionData is a new closure on every render: it reads the    *)
(* dataSource of the render in which its caller was created.  So the call  *)
(* in handleDataSourceChange, made before the re-render that               *)
(* setDataSource(newSource) causes, still uses the previous data source,   *)
(* and the effect on [dataSource] makes the call with the new one.         *)
(***************************************************************************)
\* fetchAirPollutionData(lat, lon) up to its await, in a render with `source`
Issued(p, source, loc, caller) ==
    [p EXCEPT
       !.requests = @ \cup {[id |-> p.issued + 1, dataSource |-> source,
                             lat |-> loc.lat, lon |-> loc.lon, by |-> caller]},
       !.issued = @ + 1,
       !.toast = IF source = "openweather" THEN @
                 ELSE Toast("Searching TEMPO Data", "default"),
       !.ended = NoEnd]

\* `latitude && longitude`
Located(p) == p.location.lat # 0 /\ p.location.lon # 0

handleLocationSelect(lat, lng) ==
    /\ page.issued < MaxRequests
    /\ page' = Issued([page EXCEPT !.location = [lat |-> lat, lon |-> lng],
                                   !.showForecast = FALSE,
                                   !.data["forecastData"] = "null"],
                      page.dataSource, [lat |-> lat, lon |-> lng],
                      "handleLocationSelect")
    /\ UNCHANGED <<defaults, pc, call, sent, inflight, resp, result, elapsed,
                   log, users, notifications, runs, fetch,
                   whatsapp, services, decision>>

handleDataSourceChange(newSource) ==
    /\ page.issued < MaxRequests
    /\ LET set == [page EXCEPT
                     !.dataSource = newSource,
                     !.effect = @ \/ newSource # page.dataSource,
                     !.toast = Toast("Data Source Changed", "default")]
       IN page' = IF Located(page)
                  THEN Issued(set, page.dataSource, page.location,
                              "handleDataSourceChange")
                  ELSE set
    /\ UNCHANGED <<defaults, pc, call, sent, inflight, resp, result, elapsed,
                   log, users, notifications, runs, fetch,
                   whatsapp, services, decision>>

\* useEffect(..., [dataSource]) after the render with the new data source
DataSourceEffect ==
    /\ page.effect
    /\ Located(page) => page.issued < MaxRequests
    /\ LET ran == [page EXCEPT !.effect = FALSE]
       IN page' = IF Located(page)
                  THEN Issued(ran, page.dataSource, page.location, "useEffect")
                  ELSE ran
    /\ UNCHANGED <<defaults, pc, call, sent, inflight, resp, result, elapsed,
                   log, users, notifications, runs, fetch,
                   whatsapp, services, decision>>

\* the api call of one invocation settles: setAirPollutionData with its
\* result, or the catch; handleLocationSelect goes on to fetchWeatherForecast
AirRequestSettles(id, outcome) ==
    /\ \E q \in page.requests : q.id = id
    /\ LET rq == CHOOSE q \in page.requests : q.id = id
           set == [page EXCEPT
                     !.requests = @ \ {rq},
                     !.data["airPollutionData"] =
                         IF outcome = "rejected" THEN AirPollutionDataOnError
                         ELSE outcome,
                     !.shown = IF outcome = "rejected" THEN NoOrigin
                               ELSE [dataSource |-> rq.dataSource,
                                     lat |-> rq.lat, lon |-> rq.lon],
                     !.toast = IF outcome = "rejected"
                               THEN Toast("Air Quality Error", "destructive")
                               ELSE @,
                     !.ended = [handler |-> "fetchAirPollutionData",
                                outcome |-> outcome]]
       IN page' = IF rq.by = "handleLocationSelect"
                  THEN [set EXCEPT !.pending["fetchWeatherForecast"] =
                          [Request("get", "/weather/forecast",
                                   [lat |-> rq.lat, lon |-> rq.lon])
                             EXCEPT !.wrapped = TRUE]]
                  ELSE set
    /\ UNCHANGED <<defaults, pc, call, sent, inflight, resp, result, elapsed,
                   log, users, notifications, runs, fetch,
                   whatsapp, services, decision>>

RaceNext ==
    \/ \E loc \in Locations : handleLocationSelect(loc.lat, loc.lon)
    \/ \E newSource \in DataSources : handleDataSourceChange(newSource)
    \/ DataSourceEffect
    \/ \E id \in 1..MaxRequests, outcome \in {"json", "rejected"} :
          AirRequestSettles(id, outcome)
    \/ \E outcome \in {"json", "rejected"} : WeatherForecastSettles(outcome)

RaceSpec == Init /\ [][RaceNext]_vars

(***************************************************************************)
(* SchedulerService.fetchAirQualityData.  One attempt is fetchWithTimeout  *)
(* on a base URL followed, in the same try block, by the reading of        *)
(* data.data.list[0]; it ends in one of FetchOutcomes:                     *)
(*   ok       2xx, JSON body with data.list[0]                             *)
(*   nolist   2xx, JSON body without data.list[0]                          *)
(*   notjson  2xx, body that response.json() rejects                       *)
(*   http     a status outside 200..299                                    *)
(*   network  fetch rejected                                               *)
(*   abort    the AbortController fired after 5000 ms                      *)
(***************************************************************************)
FetchUrls == <<"API_URL_PRIMARY", "API_URL_FALLBACK">>

FetchOutcomes == {"ok", "nolist", "notjson", "http", "network", "abort"}

FetchLocations == {"-8.05,-34.9", "40.7,-74", "52.5,13.4", "0,0"}

\* fetchWithTimeout: the parsed body, or an exception
fetchWithTimeout(outcome) ==
    CASE outcome \in {"network", "abort"} -> "throws"
      [] outcome = "http" -> "throws"
      [] outcome = "notjson" -> "throws"
      [] outcome \in {"ok", "nolist"} -> "data"

\* data.data.list[0].main.aqi and the components: a TypeError without the list
ReadsList(outcome) ==
    fetchWithTimeout(outcome) = "data" /\ outcome # "nolist"

AfterPrimary_Hedged(outcome) == "fallback"

\* the outer try: return, or the catch that tries the fallback
AfterPrimary(outcome) ==
    IF ReadsList(outcome) THEN "returned" ELSE "fallback"

\* the inner try: return, or the catch that throws the final error
AfterFallback(outcome) ==
    IF ReadsList(outcome) THEN "returned" ELSE "thrown"

Attempt(url, location, outcome) ==
    [url |-> url, location |-> location, outcome |-> outcome]

fetchAirQualityData(location) ==
    /\ fetch.pc \in {"idle", "returned", "thrown"}
    /\ fetch' = [pc |-> "primary", location |-> location, attempts |-> <<>>]
    /\ UNCHANGED <<defaults, pc, call, sent, inflight, resp, result, elapsed,
                   log, page, users, notifications, runs,
                   whatsapp, services, decision>>

PrimaryFetchSettles(outcome) ==
    /\ fetch.pc = "primary"
    /\ fetch' = [fetch EXCEPT
                   !.attempts = Append(@, Attempt(FetchUrls[1], fetch.location,
                                                  outcome)),
                   !.pc = AfterPrimary(outcome)]
    /\ UNCHANGED <<defaults, pc, call, sent, inflight, resp, result, elapsed,
                   log, page, users, notifications, runs,
                   whatsapp, services, decision>>

FallbackFetchSettles(outcome) ==
    /\ fetch.pc = "fallback"
    /\ fetch' = [fetch EXCEPT
                   !.attempts = Append(@, Attempt(FetchUrls[2], fetch.location,
                                                  outcome)),
                   !.pc = AfterFallback(outcome)]
    /\ UNCHANGED <<defaults, pc, call, sent, inflight, resp, result, elapsed,
                   log, page, users, notifications, runs,
                   whatsapp, services, decision>>

FetchNext ==
    \/ \E location \in FetchLocations : fetchAirQualityData(location)
    \/ \E outcome \in FetchOutcomes :
          \/ PrimaryFetchSettles(outcome)
          \/ FallbackFetchSettles(outcome)

FetchSpec == Init /\ [][FetchNext]_vars

(***************************************************************************)
(* The initialization of the services.  NotificationService.initialize     *)
(* awaits WhatsappService.initialize, which returns at once when the       *)
(* client exists and otherwise creates it and awaits client.initialize();  *)
(* then it sets `initialized` and calls SchedulerService.initialize, which *)
(* has no await of its own.                                                *)
(***************************************************************************)
\* SchedulerService.initialize: the jobs in activeJobs are stopped, the map
\* is cleared, a task is scheduled; the task is not put into the map
Scheduled(s) ==
    [s EXCEPT !.jobs = (@ - Cardinality(s.activeJobs)) + 1,
              !.activeJobs = {}]

\* NotificationService.initialize up to its first await
NotificationService_initialize(c) ==
    /\ c \in NotificationCalls
    /\ services.calls[c] = "idle"
    /\ services' =
         IF services.initialized
         THEN [services EXCEPT !.calls[c] = "done"]
         ELSE IF services.client
         THEN [services EXCEPT !.calls[c] = "returning"]
         ELSE [services EXCEPT !.client = TRUE, !.calls[c] = "initializing"]
    /\ UNCHANGED <<defaults, pc, call, sent, inflight, resp, result, elapsed,
                   log, page, users, notifications, runs, fetch,
                   whatsapp, decision>>

\* await WhatsappService.initialize() is over: the rest of the try block, or
\* the catch when client.initialize() failed
WhatsappInitialized(c, outcome) ==
    /\ services.calls[c] \in {"returning", "initializing"}
    /\ outcome = "throws" => services.calls[c] = "initializing"
    /\ services' =
         IF outcome = "throws"
         THEN [services EXCEPT !.calls[c] = "failed"]
         ELSE Scheduled([services EXCEPT !.initialized = TRUE,
                                         !.calls[c] = "done"])
    /\ UNCHANGED <<defaults, pc, call, sent, inflight, resp, result, elapsed,
                   log, page, users, notifications, runs, fetch,
                   whatsapp, decision>>

\* SchedulerService.initialize called on the exported instance
SchedulerService_initialize(c) ==
    /\ c \in SchedulerCalls
    /\ services.calls[c] = "idle"
    /\ services' = Scheduled([services EXCEPT !.calls[c] = "done"])
    /\ UNCHANGED <<defaults, pc, call, sent, inflight, resp, result, elapsed,
                   log, page, users, notifications, runs, fetch,
                   whatsapp, decision>>

InitializeNext ==
    \E c \in InitCalls :
       \/ NotificationService_initialize(c)
       \/ \E outcome \in {"ok", "throws"} : WhatsappInitialized(c, outcome)
       \/ SchedulerService_initialize(c)

InitializeSpec == Init /\ [][InitializeNext]_vars

(***************************************************************************)
(* WhatsappService: the message queue and processQueue, split where the    *)
(* loop awaits: client.sendMessage, the rateLimitDelay timeout.  What runs *)
(* between two awaits (the push, the guard of processQueue, the loop test, *)
(* the call of sendMessage, the shift) is one step.                        *)
(***************************************************************************)
Item(to, message) == [to |-> to, message |-> message]

\* the air-quality message of a run, and the reply to a location message
Summary(r) == [kind |-> "summary", no |-> r]

Reply(k) == [kind |-> "reply", no |-> k]

Replies == {Item("u1", Reply(1)), Item("u1", Reply(2)), Item("u2", Reply(1))}

SendOutcomes == {"accepted", "rejected"}

\* Array.prototype.shift
Shift(queue) == IF queue = <<>> THEN <<>> ELSE Tail(queue)

RECURSIVE Without(_, _)
Without(seq, i) ==
    IF seq = <<>> THEN <<>>
    ELSE IF i = 1 THEN Tail(seq)
    ELSE <<Head(seq)>> \o Without(Tail(seq), i - 1)

\* loop i at `while (this.messageQueue.length > 0)`: the next sendMessage is
\* called, or the loop ends with isProcessing = false
LoopTest(w, i) ==
    IF w.messageQueue # <<>>
    THEN [w EXCEPT
            !.loops[i] = [pc |-> "sending", send |-> Len(w.sends) + 1],
            !.sends = Append(@, [item |-> Head(w.messageQueue),
                                 ready |-> w.isReady,
                                 spaced |-> w.waited,
                                 outcome |-> "inflight"])]
    ELSE [w EXCEPT !.loops = Without(@, i), !.isProcessing = FALSE]

processQueue_Unguarded(w) ==
    IF w.messageQueue = <<>> \/ ~w.isReady THEN w
    ELSE LoopTest([w EXCEPT !.isProcessing = TRUE,
                            !.loops = Append(@, [pc |-> "test", send |-> 0])],
                  Len(w.loops) + 1)

\* processQueue up to its first await
processQueue(w) ==
    IF w.isProcessing \/ w.messageQueue = <<>> \/ ~w.isReady THEN w
    ELSE LoopTest([w EXCEPT !.isProcessing = TRUE,
                            !.loops = Append(@, [pc |-> "test", send |-> 0])],
                  Len(w.loops) + 1)

\* the body of enqueueMessage
Enqueued(w, item) ==
    LET pushed == [w EXCEPT !.messageQueue = Append(@, item)] IN
    IF pushed.isReady /\ ~pushed.isProcessing THEN processQueue(pushed)
    ELSE pushed

\* the item was never given to enqueueMessage
Fresh(item) ==
    /\ \A k \in DOMAIN whatsapp.messageQueue : whatsapp.messageQueue[k] # item
    /\ \A k \in DOMAIN whatsapp.sends : whatsapp.sends[k].item # item

ready_NoProcessQueue ==
    /\ services.client
    /\ whatsapp' = [whatsapp EXCEPT !.isReady = TRUE]
    /\ UNCHANGED <<defaults, pc, call, sent, inflight, resp, result, elapsed,
                   log, page, users, notifications, runs, fetch,
                   services, decision>>

\* client.on("ready")
ready ==
    /\ services.client
    /\ LET w == [whatsapp EXCEPT !.isReady = TRUE] IN
         whatsapp' = IF Len(w.messageQueue) > 0 THEN processQueue(w) ELSE w
    /\ UNCHANGED <<defaults, pc, call, sent, inflight, resp, result, elapsed,
                   log, page, users, notifications, runs, fetch,
                   services, decision>>

\* client.on("disconnected")
disconnected ==
    /\ services.client
    /\ whatsapp.isReady
    /\ whatsapp' = [whatsapp EXCEPT !.isReady = FALSE]
    /\ UNCHANGED <<defaults, pc, call, sent, inflight, resp, result, elapsed,
                   log, page, users, notifications, runs, fetch,
                   services, decision>>

\* enqueueMessage(to, message), called for a reply to an incoming message
enqueueMessage(item) ==
    /\ Fresh(item)
    /\ whatsapp' = Enqueued(whatsapp, item)
    /\ UNCHANGED <<defaults, pc, call, sent, inflight, resp, result, elapsed,
                   log, page, users, notifications, runs, fetch,
                   services, decision>>

\* client.sendMessage of loop i settles: the shift, then the timeout after an
\* accepted message, the loop test after a rejected one
SendSettles(i, outcome) ==
    /\ i \in DOMAIN whatsapp.loops
    /\ whatsapp.loops[i].pc = "sending"
    /\ LET w == [whatsapp EXCEPT
                   !.sends[whatsapp.loops[i].send].outcome = outcome,
                   !.messageQueue = Shift(@)] IN
         whatsapp' = IF outcome = "accepted"
                     THEN [w EXCEPT !.loops[i].pc = "waiting",
                                    !.waited = FALSE]
                     ELSE LoopTest(w, i)
    /\ UNCHANGED <<defaults, pc, call, sent, inflight, resp, result, elapsed,
                   log, page, users, notifications, runs, fetch,
                   services, decision>>

\* setTimeout(resolve, this.rateLimitDelay) fires in loop i
RateLimitElapsed(i) ==
    /\ i \in DOMAIN whatsapp.loops
    /\ whatsapp.loops[i].pc = "waiting"
    /\ whatsapp' = LoopTest([whatsapp EXCEPT !.waited = TRUE], i)
    /\ UNCHANGED <<defaults, pc, call, sent, inflight, resp, result, elapsed,
                   log, page, users, notifications, runs, fetch,
                   services, decision>>

LoopIds == 1..Cardinality(Replies)

WhatsappNext ==
    \/ ready
    \/ disconnected
    \/ \E item \in Replies : enqueueMessage(item)
    \/ \E i \in LoopIds :
          \/ \E outcome \in SendOutcomes : SendSettles(i, outcome)
          \/ RateLimitElapsed(i)

WhatsappSpec == StartedInit /\ [][WhatsappNext]_vars

\* every sendMessage settles and every timeout fires
WhatsappLiveSpec ==
    /\ WhatsappSpec
    /\ \A i \in LoopIds :
          /\ WF_vars(\E outcome \in SendOutcomes : SendSettles(i, outcome))
          /\ WF_vars(RateLimitElapsed(i))

(***************************************************************************)
(* SchedulerService.checkScheduledNotifications, one run per cron tick,    *)
(* split where it awaits: User.find, processUserNotification,              *)
(* User.updateOne, the 60 s timeout.  The ticks are a minute apart, so     *)
(*   - the timeout that a run started after tick t ends after tick t + 1;  *)
(*   - the processing of one user (two fetches of at most two 5 s          *)
(*     attempts each) and its updateOne are over before the next tick.     *)
(* Runs that are awake between the same two ticks interleave freely.       *)
(***************************************************************************)
RECURSIVE InOrder(_, _)
\* the documents of a set of users in the order of the collection
InOrder(order, set) ==
    IF order = <<>> THEN <<>>
    ELSE (IF Head(order) \in set THEN <<Head(order)>> ELSE <<>>)
         \o InOrder(Tail(order), set)

UserOrder == <<"u1", "u2">>

\* User.find({ active: true })
FindActive == InOrder(UserOrder, {u \in Users : users[u].active})

Started(t) == IF t > NumTicks THEN TRUE ELSE runs[t].pc # "idle"

\* tick r of cron.schedule('* * * * *'): the run up to the end of User.find
checkScheduledNotifications(r) ==
    /\ services.jobs >= 1
    /\ runs[r].pc = "idle"
    /\ \A q \in Ticks : q < r =>
          \/ runs[q].pc = "done"
          \/ runs[q].pc = "waiting" /\ runs[q].idx = r - q
    /\ LET found == FindActive IN
         runs' = [runs EXCEPT ![r] =
                    [pc |-> IF found = <<>> THEN "done" ELSE "processing",
                     snapshot |-> found,
                     idx |-> IF found = <<>> THEN 0 ELSE 1,
                     subscribed |-> {u \in Users : users[u].subscribed}]]
    /\ UNCHANGED <<defaults, pc, call, sent, inflight, resp, result, elapsed,
                   log, page, users, notifications, fetch,
                   whatsapp, services, decision>>

\* what fetchAirQualityData ends with, from the outcomes of its attempts
AirData(primary, fallback) ==
    IF AfterPrimary(primary) = "returned" THEN "returned"
    ELSE AfterFallback(fallback)

\* The document found has active true, so shouldSendNotification returns
\* true.  processUserNotification: with the air data, the notification is
\* created as pending, the message is given to enqueueMessage, whose promise
\* resolves after the push, and the notification is saved as sent; without
\* the air data the error is only logged.
processUserNotification(r, primary, fallback) ==
    /\ runs[r].pc = "processing"
    /\ LET user == runs[r].snapshot[runs[r].idx] IN
         IF AirData(primary, fallback) = "returned"
         THEN /\ notifications' = notifications \cup
                    {[user |-> user, run |-> r, status |-> "sent"]}
              /\ users' = [users EXCEPT ![user].generated = @ + 1]
              /\ whatsapp' = Enqueued(whatsapp, Item(user, Summary(r)))
         ELSE UNCHANGED <<notifications, users, whatsapp>>
    /\ runs' = [runs EXCEPT ![r].pc = "processed"]
    /\ UNCHANGED <<defaults, pc, call, sent, inflight, resp, result, elapsed,
                   log, page, fetch, services, decision>>

\* User.updateOne({ _id }, { $set: { active: false, ... } })
updateOne(r) ==
    /\ runs[r].pc = "processed"
    /\ users' = [users EXCEPT ![runs[r].snapshot[runs[r].idx]].active = FALSE]
    /\ runs' = [runs EXCEPT ![r].pc = "waiting"]
    /\ UNCHANGED <<defaults, pc, call, sent, inflight, resp, result, elapsed,
                   log, page, notifications, fetch,
                   whatsapp, services, decision>>

\* setTimeout(resolve, TIMEOUT_BETWEEN_USERS) fires: the next user, or the end
TimeoutBetweenUsers(r) ==
    /\ runs[r].pc = "waiting"
    /\ Started(r + runs[r].idx)
    /\ runs' = [runs EXCEPT ![r] =
                  IF runs[r].idx < Len(runs[r].snapshot)
                  THEN [@ EXCEPT !.pc = "processing", !.idx = @ + 1]
                  ELSE [@ EXCEPT !.pc = "done"]]
    /\ UNCHANGED <<defaults, pc, call, sent, inflight, resp, result, elapsed,
                   log, page, users, notifications, fetch,
                   whatsapp, services, decision>>

\* PATCH /users/:id/toggle-active
toggleUserActive(u) ==
    /\ users' = [users EXCEPT ![u] =
                   [active |-> ~users[u].active,
                    subscribed |-> ~users[u].active,
                    generated |-> IF users[u].active THEN users[u].generated
                                  ELSE 0]]
    /\ UNCHANGED <<defaults, pc, call, sent, inflight, resp, result, elapsed,
                   log, page, notifications, runs, fetch,
                   whatsapp, services, decision>>

SchedNext ==
    \/ \E r \in Ticks :
          \/ checkScheduledNotifications(r)
          \/ \E primary, fallback \in FetchOutcomes :
                processUserNotification(r, primary, fallback)
          \/ updateOne(r)
          \/ TimeoutBetweenUsers(r)
    \/ \E u \in Users : toggleUserActive(u)

SchedSpec == StartedInit /\ [][SchedNext]_vars

(***************************************************************************)
(* SchedulerService.shouldSendNotification, as the loop of                 *)
(* checkScheduledNotifications calls it: for each document of              *)
(* User.find({ active: true }), with the time of the tick.  A time is the  *)
(* UTC day of the week (0 Sunday, 1 Monday), hour and minute.              *)
(***************************************************************************)
\* the UTC offset, in hours, of a moment-timezone zone
UtcOffset(timezone) ==
    CASE timezone = "America/Recife" -> -3
      [] timezone = "UTC" -> 0

\* moment.tz(currentTime, timezone || 'America/Recife')
userTime(currentTime, timezone) ==
    LET zone == IF timezone = "" THEN "America/Recife" ELSE timezone
        h == currentTime.hour + UtcOffset(zone)
    IN  IF h < 0
        THEN Clock((currentTime.day + 6) % 7, h + 24, currentTime.minute)
        ELSE IF h > 23
        THEN Clock((currentTime.day + 1) % 7, h - 24, currentTime.minute)
        ELSE Clock(currentTime.day, h, currentTime.minute)

\* timeOfDay.split(':')
Split(timeOfDay) ==
    CASE timeOfDay = "08:00" -> <<"08", "00">>
      [] timeOfDay = "12:30" -> <<"12", "30">>

parseInt(s) ==
    CASE s = "00" -> 0
      [] s = "08" -> 8
      [] s = "12" -> 12
      [] s = "30" -> 30

shouldSendNotification(user, currentTime) ==
    IF user.active THEN TRUE
    ELSE
      LET frequency == user.notificationPreferences.frequency
          local == userTime(currentTime, user.notificationPreferences.timezone)
          scheduled == Split(user.notificationPreferences.timeOfDay)
          atScheduled == /\ local.hour = parseInt(scheduled[1])
                         /\ local.minute = parseInt(scheduled[2])
      IN  CASE frequency = "realtime" -> TRUE
            [] frequency = "15min" -> local.minute % 15 = 0
            [] frequency = "hourly" -> local.minute = 0
            [] frequency = "daily" -> atScheduled
            [] frequency = "weekly" -> local.day = 1 /\ atScheduled
            [] OTHER -> FALSE

Frequencies == {"realtime", "15min", "hourly", "daily", "weekly", "monthly"}

\* the documents that User.find({ active: true }) can return
FoundUsers ==
    {[active |-> TRUE,
      notificationPreferences |-> Preferences(frequency, timeOfDay, timezone)] :
        frequency \in Frequencies, timeOfDay \in {"08:00", "12:30"},
        timezone \in {"", "UTC"}}

TickTimes ==
    {Clock(day, hour, minute) :
        day \in {1, 2}, hour \in {2, 11, 15}, minute \in {0, 7, 30}}

\* one iteration of the loop up to `if (shouldSendNotification)`
LoopDecides(user, now) ==
    /\ decision' = [evaluated |-> TRUE, active |-> user.active,
                    notificationPreferences |-> user.notificationPreferences,
                    currentTime |-> now,
                    send |-> shouldSendNotification(user, now)]
    /\ UNCHANGED <<defaults, pc, call, sent, inflight, resp, result, elapsed,
                   log, page, users, notifications, runs, fetch,
                   whatsapp, services>>

DecisionNext == \E user \in FoundUsers, now \in TickTimes : LoopDecides(user, now)

DecisionSpec == StartedInit /\ [][DecisionNext]_vars

(***************************************************************************)
(* The scheduler together with the WhatsApp client: the runs as above,     *)
(* every fetch delivering or both attempts timing out, and the events and  *)
(* the loop of WhatsappService.                                            *)
(***************************************************************************)
NotifyNext ==
    \/ \E r \in Ticks :
          \/ checkScheduledNotifications(r)
          \/ \E outcome \in {"ok", "abort"} :
                processUserNotification(r, outcome, outcome)
          \/ updateOne(r)
          \/ TimeoutBetweenUsers(r)
    \/ ready
    \/ disconnected
    \/ \E i \in LoopIds :
          \/ \E outcome \in SendOutcomes : SendSettles(i, outcome)
          \/ RateLimitElapsed(i)

NotifySpec == StartedInit /\ [][NotifyNext]_vars

(***************************************************************************)
(* Vocabulary of the properties.  An attempt is judged from what the       *)
(* backend did and from the timeout class of the operation: short for get  *)
(* and post, long for the long-running variants.                           *)
(***************************************************************************)
Done(c) == pc[c] \in {"resolved", "rejected"}

LongOps == {"getLongRunning", "postLongRunning"}

ClassTimeout(op) == IF op \in LongOps THEN 80000 ELSE 5000

\* the backend answered in time with a 2xx status
Answered2xx(beh, t) ==
    beh.delay < t /\ beh.status >= 200 /\ beh.status <= 299

\* success: 2xx status, parseable JSON body
AttemptOK(beh, t) == Answered2xx(beh, t) /\ beh.json

\* failure by connection error, timeout or non-2xx HTTP status
AttemptFailed(beh, t) ==
    \/ beh.delay >= t
    \/ beh.status = 0
    \/ beh.status < 200
    \/ beh.status > 299

\* 2xx in time, body not parseable as JSON
AttemptMalformed(beh, t) == Answered2xx(beh, t) /\ ~beh.json

RequestsTo(c, api) == {i \in 1..Len(sent[c]) : sent[c][i].api = api}

BodyOf(api, parsed) ==
    [state |-> "ok", from |-> {api}, part |-> "body", parsed |-> parsed,
     message |-> ""]

PrimaryOK(c) ==
    Len(resp[c]) >= 1 /\ AttemptOK(resp[c][1], ClassTimeout(call[c].op))

PrimaryFailed(c) ==
    Len(resp[c]) >= 1 /\ AttemptFailed(resp[c][1], ClassTimeout(call[c].op))

FallbackOK(c) ==
    Len(resp[c]) >= 2 /\ AttemptOK(resp[c][2], ClassTimeout(call[c].op))

FallbackFailed(c) ==
    Len(resp[c]) >= 2 /\ AttemptFailed(resp[c][2], ClassTimeout(call[c].op))

(***************************************************************************)
(* C1.  A call whose primary attempt succeeds sends nothing to the         *)
(* fallback backend and resolves with the primary's body.                  *)
(***************************************************************************)
C1_PrimarySuccessNoFallback ==
    \A c \in Calls :
       PrimaryOK(c) =>
          /\ RequestsTo(c, "fallback") = {}
          /\ pc[c] = "resolved"
          /\ result[c] = BodyOf("primary", TRUE)

C1_Witness ==
    \E c \in Calls : PrimaryOK(c) /\ pc[c] = "resolved" /\ Len(sent[c]) = 1

(***************************************************************************)
(* C2.  A call whose primary attempt fails by connection error, timeout or *)
(* non-2xx status sends exactly one request to the fallback backend, with  *)
(* the method, URL and body of the primary request, and a fallback success *)
(* is the result of the call.                                              *)
(***************************************************************************)
C2_FailureTriesFallbackOnce ==
    \A c \in Calls :
       PrimaryFailed(c) =>
          /\ RequestsTo(c, "fallback") = {2}
          /\ sent[c][2].method = sent[c][1].method
          /\ sent[c][2].url = sent[c][1].url
          /\ sent[c][2].body = sent[c][1].body
          /\ FallbackOK(c) =>
                pc[c] = "resolved" /\ result[c] = BodyOf("fallback", TRUE)

C2_Witness ==
    \E c \in Calls :
       /\ PrimaryFailed(c)
       /\ FallbackOK(c)
       /\ call[c].op = "post"
       /\ sent[c][2].body = Obj(call[c].data)
       /\ pc[c] = "resolved"

(***************************************************************************)
(* C3.  A call whose primary and fallback attempts both fail rejects with  *)
(* the one generic error, the same for every pair of failure kinds, and    *)
(* carries no data of either backend.                                      *)
(***************************************************************************)
C3_BothFailOneError ==
    \A c \in Calls :
       PrimaryFailed(c) /\ FallbackFailed(c) =>
          /\ pc[c] = "rejected"
          /\ result[c].state = "error"
          /\ result[c].message = "Todas as tentativas de API falharam"
          /\ result[c].from = {}
          /\ \A d \in Calls :
                PrimaryFailed(d) /\ FallbackFailed(d) => result[d] = result[c]

C3_Witness ==
    \E c, d \in Calls :
       /\ PrimaryFailed(c) /\ FallbackFailed(c) /\ pc[c] = "rejected"
       /\ PrimaryFailed(d) /\ FallbackFailed(d) /\ pc[d] = "rejected"
       /\ resp[c][1].status = 0 /\ resp[c][2].status = 500
       /\ resp[d][1].delay = 10000 /\ resp[d][2].status = 0


(***************************************************************************)
(* C4.  A call has no result before it ends, and it ends in exactly one of *)
(* primary success, fallback success and both-failed error; a resolved     *)
(* value is the whole body of the one backend that answered.               *)
(***************************************************************************)
EndedByPrimary(c) ==
    /\ pc[c] = "resolved"
    /\ Len(resp[c]) = 1
    /\ result[c] = BodyOf("primary", resp[c][1].json)

EndedByFallback(c) ==
    /\ pc[c] = "resolved"
    /\ Len(resp[c]) = 2
    /\ result[c] = BodyOf("fallback", resp[c][2].json)

EndedByError(c) ==
    /\ pc[c] = "rejected"
    /\ Len(resp[c]) = 2
    /\ result[c].state = "error"
    /\ result[c].from = {}

Outcomes(c) ==
    {o \in {"primary", "fallback", "error"} :
        \/ o = "primary" /\ EndedByPrimary(c)
        \/ o = "fallback" /\ EndedByFallback(c)
        \/ o = "error" /\ EndedByError(c)}

C4_ExactlyOneOutcome ==
    \A c \in Calls :
       /\ ~Done(c) => result[c] = Pending /\ Outcomes(c) = {}
       /\ Done(c) => Cardinality(Outcomes(c)) = 1

C4_Witness ==
    \E c, d \in Calls :
       /\ Outcomes(c) = {"fallback"}
       /\ Outcomes(d) = {"error"}

(***************************************************************************)
(* C5.  The two attempts of a call are never pending together: the         *)
(* fallback request exists only once the primary attempt has settled with  *)
(* a failure or a timeout, and it is issued at that moment.                *)
(***************************************************************************)
C5_AttemptsSequential ==
    \A c \in Calls :
       /\ Cardinality(inflight[c]) <= 1
       /\ RequestsTo(c, "fallback") # {} =>
             /\ "primary" \notin inflight[c]
             /\ Len(resp[c]) >= 1
             /\ ~Answered2xx(resp[c][1], ClassTimeout(call[c].op))
             /\ sent[c][2].at =
                   IF resp[c][1].delay < ClassTimeout(call[c].op)
                   THEN resp[c][1].delay
                   ELSE ClassTimeout(call[c].op)

C5_Witness ==
    \E c \in Calls :
       /\ inflight[c] = {"fallback"}
       /\ resp[c][1].delay = 90000
       /\ call[c].op = "postLongRunning"
       /\ sent[c][2].at = 80000

(***************************************************************************)
(* C6.  A call issues at most two requests: at most one to each backend.   *)
(***************************************************************************)
C6_AtMostTwoRequests ==
    \A c \in Calls :
       /\ Len(sent[c]) <= 2
       /\ \A api \in Apis : Cardinality(RequestsTo(c, api)) <= 1
       /\ \A i \in 1..Len(sent[c]) : sent[c][i].api \in Apis

C6_Witness ==
    \E c \in Calls :
       /\ pc[c] = "rejected"
       /\ Cardinality(RequestsTo(c, "primary")) = 1
       /\ Cardinality(RequestsTo(c, "fallback")) = 1

(***************************************************************************)
(* C7.  The progress and the outcome of a call are a function of the       *)
(* operation and of what the backends did with this call's own attempts,   *)
(* in every interleaving with the other calls on the shared client.        *)
(***************************************************************************)
OwnProgress(op, behs) ==
    LET t == ClassTimeout(op)
    IN IF Len(behs) = 0 THEN <<"primary", Pending>>
       ELSE IF Answered2xx(behs[1], t)
            THEN <<"resolved", BodyOf("primary", behs[1].json)>>
       ELSE IF Len(behs) = 1 THEN <<"fallback", Pending>>
       ELSE IF Answered2xx(behs[2], t)
            THEN <<"resolved", BodyOf("fallback", behs[2].json)>>
       ELSE <<"rejected",
              [state |-> "error", from |-> {}, part |-> "", parsed |-> FALSE,
               message |-> "Todas as tentativas de API falharam"]>>

C7_CallsIndependent ==
    \A c \in Calls :
       /\ pc[c] = "idle" => resp[c] = <<>> /\ result[c] = Pending
       /\ pc[c] # "idle" =>
             /\ Len(resp[c]) <= 2
             /\ <<pc[c], result[c]>> = OwnProgress(call[c].op, resp[c])

\* Two calls with requests pending at the same time, both backends
\* unreachable for the first and for the second.
C7_Witness ==
    \E c, d \in Calls :
       /\ c # d
       /\ inflight[c] = {"fallback"} /\ resp[c][1].status = 0
       /\ inflight[d] = {"primary"}
       /\ call[c].op = "getLongRunning" /\ call[d].op = "get"


(***************************************************************************)
(* C8.  Both requests of get and post carry the 5 s timeout and both       *)
(* requests of getLongRunning and postLongRunning the 80 s timeout; an     *)
(* attempt of a long-running call that the backend answers (2xx, JSON)     *)
(* after 10 s succeeds: the call resolves with that backend's body, 10 s   *)
(* after the attempt began.                                                *)
(***************************************************************************)
SlowAnswer == [status |-> 200, json |-> TRUE, delay |-> 10000]

C9_TimeoutPerAttempt ==
    \A c \in Calls :
       LET t == ClassTimeout(call[c].op)
       IN /\ elapsed[c] <= Len(resp[c]) * t
          /\ Len(resp[c]) <= 2
          /\ Done(c) => elapsed[c] <= t + t
          /\ Len(resp[c]) >= 1 /\ resp[c][1].delay >= t =>
                /\ Len(sent[c]) = 2
                /\ sent[c][2].at = t
          /\ pc[c] = "primary" => ENABLED (PrimarySucceeds(c) \/ PrimaryFails(c))
          /\ pc[c] = "fallback" => ENABLED (FallbackSucceeds(c) \/ FallbackFails(c))

C9_Witness ==
    \E c \in Calls :
       /\ call[c].op = "get"
       /\ pc[c] = "rejected"
       /\ resp[c][1].delay = 90000
       /\ resp[c][2].delay = 90000
       /\ elapsed[c] = 10000

(***************************************************************************)
(* C10.  An attempt answered 2xx with a body that is not JSON fails: on    *)
(* the primary the fallback is attempted, on the fallback the call is      *)
(* rejected, and no call resolves with an unparsed body.                   *)
(***************************************************************************)
C10_MalformedJsonIsFailure ==
    \A c \in Calls :
       LET t == ClassTimeout(call[c].op)
       IN /\ Len(resp[c]) >= 1 /\ AttemptMalformed(resp[c][1], t) =>
                RequestsTo(c, "fallback") # {}
          /\ Len(resp[c]) = 2 /\ AttemptMalformed(resp[c][2], t) =>
                pc[c] = "rejected"
          /\ ~(result[c].state = "ok" /\ ~result[c].parsed)

(***************************************************************************)
(* The query string of a request as the set of its key=value pairs, and    *)
(* the pairs an object is to give: one per key whose value is not          *)
(* undefined, key and value percent-encoded.                               *)
(***************************************************************************)
PairsOf(query) ==
    { <<query[i - 1], query[i + 1]>> :
         i \in {j \in 2..(Len(query) - 1) : query[j] = "="} }

NumPairs(query) == Cardinality({j \in 1..Len(query) : query[j] = "="})

PercentEncoded(s) ==
    CASE s = "a b" -> "a%20b"
      [] s = "a&b" -> "a%26b"
      [] s = "{lat,lon}" -> "%5Bobject%20Object%5D"
      [] OTHER -> s

ExpectedPairs(entries) ==
    { <<PercentEncoded(entries[i][1]), PercentEncoded(entries[i][2])>> :
         i \in {j \in 1..Len(entries) : entries[j][2] # "undefined"} }

GetOps == {"get", "getLongRunning"}

\* the object has a key named params whose value JavaScript takes as true
HasParamsKey(entries) ==
    \E i \in 1..Len(entries) :
       entries[i][1] = "params" /\ entries[i][2] \notin {"undefined", "", "0"}

QueryIsFrom(c, entries) ==
    \A i \in 1..Len(sent[c]) :
       /\ PairsOf(sent[c][i].url.query) = ExpectedPairs(entries)
       /\ NumPairs(sent[c][i].url.query) = Cardinality(ExpectedPairs(entries))

IsJsonObject(entries) ==
    \A i \in 1..Len(entries) : entries[i][2] # "undefined"

SameObject(a, b) ==
    /\ Len(a) = Len(b)
    /\ {a[i] : i \in 1..Len(a)} = {b[i] : i \in 1..Len(b)}

PostOps == {"post", "postLongRunning"}

ResolvedWithBody(c) ==
    /\ pc[c] = "resolved"
    /\ result[c].state = "ok"
    /\ result[c].parsed
    /\ result[c].part = "body"

EchoedValue(c) ==
    LET a == CHOOSE x \in Apis : result[c].from = {x}
    IN JSONparse(RequestBodyText(RequestOn(c, a)))

(***************************************************************************)
(* C12: a post or postLongRunning of a JSON object that an echoing backend *)
(* answers, primary or fallback, resolves with the whole parsed response   *)
(* body, and that value has the keys and values of the posted object; the  *)
(* request carries no query string.                                        *)
(***************************************************************************)
C12_PostRoundTrip ==
    \A c \in Calls :
       (call[c].op \in PostOps /\ IsJsonObject(call[c].data)) =>
          /\ \A i \in 1..Len(sent[c]) :
                /\ sent[c][i].method = "post"
                /\ sent[c][i].url.query = <<>>
                /\ SameObject(JSONparse(RequestBodyText(sent[c][i])), call[c].data)
          /\ (pc[c] = "resolved" /\ result[c].parsed) =>
                /\ ResolvedWithBody(c)
                /\ SameObject(EchoedValue(c), call[c].data)

\* a post of { params: { lat, lon } } was echoed by the fallback after the
\* primary had failed
C12_Witness ==
    \E c \in Calls :
       /\ call[c].op = "post"
       /\ call[c].data = << <<"params", LatLon>> >>
       /\ ResolvedWithBody(c)
       /\ result[c].from = {"fallback"}
       /\ EchoedValue(c) = << <<"params", LatLon>> >>

(***************************************************************************)
(* C13: whatever calls have been made and however they ended, each         *)
(* instance has the base URL and the short timeout the constructor gave    *)
(* it; every call makes its first attempt on the primary instance, and     *)
(* every request of a get or post has the short timeout.                   *)
(***************************************************************************)
C13_NothingRetained ==
    /\ \A a \in Apis :
          defaults[a] = [baseURL |-> a, timeout |-> 5000]
    /\ \A c \in Calls :
          Len(sent[c]) >= 1 =>
             /\ sent[c][1].api = "primary"
             /\ call[c].op \in {"get", "post"} =>
                   \A i \in 1..Len(sent[c]) : sent[c][i].timeout = 5000

\* a long-running call has failed on both backends, and another call, a get,
\* is on its primary attempt with the short timeout
C13_Witness ==
    \E c, d \in Calls :
       /\ call[c].op \in LongOps
       /\ pc[c] = "rejected"
       /\ call[d].op = "get"
       /\ pc[d] = "primary"
       /\ sent[d] # <<>>
       /\ sent[d][1].timeout = 5000

(***************************************************************************)
(* The request that get (for getLongRunning) or post (for postLongRunning) *)
(* makes on instance api for the endpoint and the data of call c.          *)
(***************************************************************************)
ShortVariant(op) == IF op = "getLongRunning" THEN "get" ELSE "post"

ShortRequest(c, api) ==
    LET a == PrimaryAttempt([call[c] EXCEPT !.op = ShortVariant(call[c].op)])
    IN tryRequest(api, a.method, call[c].endpoint, a.data, a.customTimeout, 0)

(***************************************************************************)
(* C17: every request of a getLongRunning or postLongRunning call has the  *)
(* method, the URL (path and query string) and the body of the request     *)
(* that get or post sends for the same path and the same params or body.   *)
(* It fails for getLongRunning on a params object with a key named params. *)
(***************************************************************************)
C17_LongVariantsSameRequest ==
    \A c \in Calls :
       call[c].op \in LongOps =>
          \A i \in 1..Len(sent[c]) :
             /\ sent[c][i].method = ShortRequest(c, sent[c][i].api).method
             /\ sent[c][i].url = ShortRequest(c, sent[c][i].api).url
             /\ sent[c][i].body = ShortRequest(c, sent[c][i].api).body

(***************************************************************************)
(* The outcome entries of an attempt: the entries of the call's log that   *)
(* name the base URL of the attempt's instance and the call's path and say *)
(* succeeded or failed.                                                    *)
(***************************************************************************)
OutcomeEntries(c, api) ==
    {j \in 1..Len(log[c]) :
        /\ log[c][j].baseURL = defaults[api].baseURL
        /\ log[c][j].endpoint = call[c].endpoint
        /\ log[c][j].text \in {"succeeded", "failed"}}

(***************************************************************************)
(* C16: every settled attempt of a call has exactly one outcome entry in   *)
(* the log, naming backend and path, saying succeeded exactly when the     *)
(* attempt fulfilled, and carrying the attempt's latency; it is there      *)
(* once the attempt has settled, hence before a fallback request exists;   *)
(* and the instances are as constructed.  It fails on the latency: the     *)
(* entry of a failed attempt has none.                                     *)
(***************************************************************************)
C16_OneOutcomeEntryPerAttempt ==
    /\ \A a \in Apis : defaults[a] = [baseURL |-> a, timeout |-> 5000]
    /\ \A c \in Calls :
          \A i \in 1..Len(resp[c]) :
             LET api == sent[c][i].api
                 t == sent[c][i].timeout
                 es == OutcomeEntries(c, api)
             IN /\ Cardinality(es) = 1
                /\ \A j \in es :
                      /\ (log[c][j].text = "succeeded") <=> Fulfils(resp[c][i], t)
                      /\ log[c][j].duration = <<Latency(resp[c][i], t)>>

(***************************************************************************)
(* The documented table of the TEMPO date range: the optimisation applies  *)
(* from October 2025 on; 30 days before 2025-09-15 is 2025-08-16.          *)
(***************************************************************************)
OptimizationApplies(today) ==
    (today.y = 2025 /\ today.m \in {10, 11, 12}) \/ today.y > 2025

ThirtyDaysBefore(today) ==
    CASE today = Date(2025, 9, 15) -> Date(2025, 8, 16)
      [] today = Date(2025, 9, 20) -> Date(2025, 8, 21)
      [] OTHER -> NoDate

(***************************************************************************)
(* C15: the TEMPO request that fetchAirPollutionData is awaiting has       *)
(* end_date 2025-09-20 and start_date 2025-08-21 when the browser's        *)
(* current date is in October-December 2025 or in a later year, and        *)
(* otherwise the current date as end_date and the date 30 days before it   *)
(* as start_date, whatever the hour and the time zone of the browser.  It  *)
(* fails east of UTC, where the dates sent are a day early.                *)
(***************************************************************************)
C15_TempoDateRange ==
    LET rq == page.pending["fetchAirPollutionData"]
    IN rq.op = "getLongRunning" =>
          IF OptimizationApplies(rq.now.date)
          THEN /\ rq.end_date = Date(2025, 9, 20)
               /\ rq.start_date = Date(2025, 8, 21)
          ELSE /\ rq.end_date = rq.now.date
               /\ rq.start_date = ThirtyDaysBefore(rq.now.date)

(***************************************************************************)
(* C18: in the state in which an invocation of one of the four fetch       *)
(* handlers has just ended after its api call was rejected, the handler's  *)
(* data state is null and the toast shown is an error toast.  It fails     *)
(* for fetchAirPollutionForecast, which keeps the forecast loaded before.  *)
(***************************************************************************)
C18_HandlersClearOnFailure ==
    \A h \in Handlers :
       page.ended = [handler |-> h, outcome |-> "rejected"] =>
          /\ page.data[StateOf(h)] = "null"
          /\ page.toast.variant = "destructive"


(***************************************************************************)
(* C14: a registered, active user keeps receiving summaries on successive  *)
(* scheduler cycles without registering or sending a location again:       *)
(* every run finds each user who was subscribed when its tick came.        *)
(***************************************************************************)
Found(r) == {runs[r].snapshot[i] : i \in 1..Len(runs[r].snapshot)}

C14_KeepsReceiving ==
    \A r \in Ticks :
       runs[r].pc # "idle" => runs[r].subscribed \subseteq Found(r)

(***************************************************************************)
(* C19: fetchAirQualityData calls the primary URL first, the fallback URL  *)
(* only after the primary attempt has failed, each URL at most once, and   *)
(* throws only when both attempts failed.                                  *)
(***************************************************************************)
FailedAttempt(a) ==
    a.outcome \in {"network", "abort", "http", "notjson", "nolist"}

C19_SequentialFallback ==
    LET a == fetch.attempts IN
    /\ Len(a) <= 2
    /\ \A i \in 1..Len(a) : a[i].location = fetch.location
    /\ Len(a) >= 1 => a[1].url = "API_URL_PRIMARY"
    /\ Len(a) = 2 => a[2].url = "API_URL_FALLBACK" /\ FailedAttempt(a[1])
    /\ fetch.pc = "primary" => Len(a) = 0
    /\ fetch.pc = "fallback" => Len(a) = 1 /\ FailedAttempt(a[1])
    /\ fetch.pc = "returned" => Len(a) >= 1 /\ ~FailedAttempt(a[Len(a)])
    /\ fetch.pc = "thrown" =>
          Len(a) = 2 /\ FailedAttempt(a[1]) /\ FailedAttempt(a[2])

\* the primary answered without data.list[0] and the fallback delivered
C19_Witness ==
    /\ fetch.pc = "returned"
    /\ Len(fetch.attempts) = 2
    /\ fetch.attempts[1].outcome = "nolist"
    /\ fetch.attempts[2].outcome = "ok"

(***************************************************************************)
(* C20: for each activation of a user at most one notification is          *)
(* generated, overlapping runs included.                                   *)
(***************************************************************************)
C20_OnePerActivation ==
    \A u \in Users : users[u].generated <= 1


(***************************************************************************)
(* C24: at most one processQueue loop is active at any time, no two        *)
(* client.sendMessage calls are in flight together, and every accepted     *)
(* send was called with the rateLimitDelay elapsed since the accepted send *)
(* before it.                                                              *)
(***************************************************************************)
InFlight == {k \in DOMAIN whatsapp.sends : whatsapp.sends[k].outcome = "inflight"}

C24_OneLoop ==
    /\ Len(whatsapp.loops) <= 1
    /\ Cardinality(InFlight) <= 1
    /\ \A k \in DOMAIN whatsapp.sends :
          whatsapp.sends[k].outcome = "accepted" => whatsapp.sends[k].spaced

\* two accepted sends, a third message waiting while the loop is in its timeout
C24_Witness ==
    /\ Len(whatsapp.sends) = 2
    /\ \A k \in 1..2 : whatsapp.sends[k].outcome = "accepted"
    /\ Len(whatsapp.messageQueue) = 1
    /\ Len(whatsapp.loops) = 1
    /\ whatsapp.isReady

(***************************************************************************)
(* C25: once the client is ready, every queued message is eventually       *)
(* handed to client.sendMessage, exactly once, and removed; then the queue *)
(* is empty and isProcessing is false again.                               *)
(***************************************************************************)
Handed(item) == {k \in DOMAIN whatsapp.sends : whatsapp.sends[k].item = item}

InQueue(item) ==
    \E k \in DOMAIN whatsapp.messageQueue : whatsapp.messageQueue[k] = item

C25_EventuallySentOnce ==
    /\ [](\A item \in Replies : Cardinality(Handed(item)) <= 1)
    /\ \A item \in Replies :
          (whatsapp.isReady /\ InQueue(item))
             ~> (Cardinality(Handed(item)) = 1 /\ ~InQueue(item))
    /\ (whatsapp.isReady /\ whatsapp.messageQueue # <<>>)
          ~> (whatsapp.messageQueue = <<>> /\ ~whatsapp.isProcessing)

\* all three replies handed over, the first one rejected, nothing left
C25_Witness ==
    /\ \A item \in Replies : Cardinality(Handed(item)) = 1
    /\ whatsapp.sends[1].outcome = "rejected"
    /\ whatsapp.messageQueue = <<>>
    /\ ~whatsapp.isProcessing
    /\ whatsapp.isReady

(***************************************************************************)
(* C26: client.sendMessage is called only while isReady is true.           *)
(***************************************************************************)
C26_SendsOnlyWhileReady ==
    \A k \in DOMAIN whatsapp.sends : whatsapp.sends[k].ready


(***************************************************************************)
(* C21: a run sets a user to active:false only after an air-quality        *)
(* notification for that user has been created and enqueued in that run.   *)
(***************************************************************************)
Deactivated(r) ==
    IF runs[r].pc = "waiting" THEN {runs[r].snapshot[runs[r].idx]} ELSE {}

C21_DeactivatedOnlyAfterEnqueue ==
    \A r \in Ticks : \A u \in Deactivated(r) :
       /\ \E n \in notifications : n.user = u /\ n.run = r
       /\ \/ InQueue(Item(u, Summary(r)))
          \/ Handed(Item(u, Summary(r))) # {}

(***************************************************************************)
(* C22: a Notification has status 'sent' only if client.sendMessage        *)
(* accepted its message.                                                   *)
(***************************************************************************)
Accepted(item) ==
    \E k \in Handed(item) : whatsapp.sends[k].outcome = "accepted"

C22_SentOnlyIfAccepted ==
    \A n \in notifications :
       n.status = "sent" => Accepted(Item(n.user, Summary(n.run)))


(***************************************************************************)
(* C23: at a tick a user is notified only if the tick matches the user's   *)
(* notificationPreferences: realtime always, 15min at local minutes that   *)
(* are multiples of 15, hourly at local minute 0, daily at the local       *)
(* timeOfDay, weekly at the local timeOfDay on Monday, otherwise never.    *)
(***************************************************************************)
LocalTime(d) == userTime(d.currentTime, d.notificationPreferences.timezone)

AtTimeOfDay(d) ==
    \/ d.notificationPreferences.timeOfDay = "08:00"
          /\ LocalTime(d).hour = 8 /\ LocalTime(d).minute = 0
    \/ d.notificationPreferences.timeOfDay = "12:30"
          /\ LocalTime(d).hour = 12 /\ LocalTime(d).minute = 30

TickMatches(d) ==
    \/ d.notificationPreferences.frequency = "realtime"
    \/ d.notificationPreferences.frequency = "15min"
          /\ LocalTime(d).minute \in {0, 15, 30, 45}
    \/ d.notificationPreferences.frequency = "hourly"
          /\ LocalTime(d).minute = 0
    \/ d.notificationPreferences.frequency = "daily" /\ AtTimeOfDay(d)
    \/ d.notificationPreferences.frequency = "weekly"
          /\ LocalTime(d).day = 1 /\ AtTimeOfDay(d)

C23_NotifiedOnlyWhenDue ==
    (decision.evaluated /\ decision.send) => TickMatches(decision)


(***************************************************************************)
(* C27: after any calls of NotificationService.initialize and              *)
(* SchedulerService.initialize at most one cron job is registered.         *)
(***************************************************************************)
C27_OneCronJob == services.jobs <= 1


(***************************************************************************)
(* C28: when every request has settled, the displayed airPollutionData is  *)
(* the result of the request for the data source and the location that     *)
(* were selected last.                                                     *)
(***************************************************************************)
Settled ==
    page.requests = {} /\ ~page.effect /\ page.issued > 0

C28_ShowsLatestSelection ==
    (Settled /\ page.data["airPollutionData"] # "null") =>
        page.shown = [dataSource |-> page.dataSource,
                      lat |-> page.location.lat, lon |-> page.location.lon]

=============================================================================
